---- MODULE Spec2Model ----
(***************************************************************************)
(* Model of the VCSL anchoring service: BsvService (services/serv_bsv.py), *)
(* the HTTP handlers of VcslRouter (routers/rout_vcsl.py) and the store    *)
(* PostgresDataStore (persistance/datastore_postgres.py).                  *)
(*                                                                         *)
(* Every request is a call that runs its handler as a sequence of steps;   *)
(* one step ends at each blocking I/O call (store access, indexer query,   *)
(* broadcast submission), so the steps of different calls interleave.      *)
(* Hashes, keys and addresses are symbolic terms: HMAC-SHA256 and the      *)
(* transaction hash are modelled as term constructors.                     *)
(***************************************************************************)
EXTENDS Integers, Sequences, FiniteSets, TLC

\* number of requests started so far
VARIABLE invocations

(***************************************************************************)
(* Bounds of the model                                                     *)
(***************************************************************************)
\* number of request slots that can be in flight at the same time
NCalls == 2
\* total number of requests that are started in one behaviour
MaxInvocations == 2
\* longest listing the chain indexer returns
MaxListLen == 2

Calls == 1..NCalls

\* business identifiers, URLs and content pointers of the requests
Ids == {"a", "b"}
Urls == {"u1"}
Pointers == {"p1"}

\* values (sats) of the outputs that fund the wallet address at start
FundingValues == {600, 1000, 2000}
\* sizes (bytes) that the library's size estimate can report
EstimatedSizes == {225}

(***************************************************************************)
(* Program constants                                                       *)
(***************************************************************************)
VCSL_PROTOCOL_ID == "quarkid-vcsl"
\* default of the constructor parameter bsv_network
network == "testnet"
\* dust_amount = 546
dust_amount == 546
\* fee_rate = 0.5 sat/byte, kept as the exact fraction fee_rate_num / fee_rate_den
fee_rate_num == 1
fee_rate_den == 2
\* temp_change_sats = 1
temp_change_sats == 1
\* fee = max(1, fee)
min_fee == 1

\* the absent value (None) of a transaction id
NoTxid == <<>>
\* the absent value (None) of a url or pointer
NoValue == ""

Max(a, b) == IF a >= b THEN a ELSE b

(***************************************************************************)
(* Keys, addresses, scripts (symbolic)                                     *)
(***************************************************************************)
\* hmac.new(key, message, hashlib.sha256).digest()
HmacSha256(key, message) == <<"hmac_sha256", key, message>>

\* Key(wif, network): the master key of the service
MasterKey(wif) == [scalar |-> <<"master", wif>>, network |-> network]

\* Key.address()
Address(key) == <<"address", key.network, key.scalar>>

\* Script.p2pkh(address)
P2pkh(address) == <<"p2pkh", address>>

\* the context string f"{protocol}/{key_id}"
ContextString(protocol, key_id) == protocol \o "/" \o key_id

\* _derive_brc42_key with the number of requests served so far mixed into
\* the HMAC message
DeriveBrc42Key_Stateful(master, key_id) ==
    LET hmac_key == master.scalar
        context_string == ContextString(VCSL_PROTOCOL_ID, key_id)
        hmac_digest == HmacSha256(hmac_key,
                                  context_string \o "#" \o ToString(invocations))
        child_scalar == <<"add_mod_N", master.scalar, hmac_digest>>
    IN [scalar |-> child_scalar, network |-> master.network]

\* BsvService._derive_brc42_key: child_scalar = (master_scalar + scalar) % N
DeriveBrc42Key(master, key_id) ==
    LET hmac_key == master.scalar
        context_string == ContextString(VCSL_PROTOCOL_ID, key_id)
        hmac_digest == HmacSha256(hmac_key, context_string)
        child_scalar == <<"add_mod_N", master.scalar, hmac_digest>>
    IN [scalar |-> child_scalar, network |-> master.network]

\* the issuer id used as the key id as it is
IssuerKeyId_NoPrefix(issuer_id) == issuer_id

\* key_id=f"issuer/{issuer_id}" in set_issuer_url
IssuerKeyId(issuer_id) == "issuer/" \o issuer_id
\* key_id=f"vcsl/{id}" in add_vcsl
VcslKeyId(id) == "vcsl/" \o id

(***************************************************************************)
(* UTXO source                                                             *)
(***************************************************************************)
\* One entry of the indexer's JSON answer.  value_num / pos_int tell whether
\* 'value' converts with int() and whether 'tx_pos' is an int.
IndexerEntry(value, value_num, tx_hash, tx_pos, pos_int) ==
    [value |-> value, value_num |-> value_num, tx_hash |-> tx_hash,
     tx_pos |-> tx_pos, pos_int |-> pos_int]

\* the test "sats > 0 and txid and isinstance(index, int)"
EntryIsValid(e) == e.value > 0 /\ e.tx_hash # NoTxid /\ e.pos_int

\* the dict appended to utxos
UtxoOf(e, address) ==
    [txid |-> e.tx_hash, index |-> e.tx_pos, sats |-> e.value,
     script_pubkey |-> P2pkh(address)]

RECURSIVE FilterEntries(_, _)
FilterEntries(data, address) ==
    IF data = <<>> THEN <<>>
    ELSE IF EntryIsValid(Head(data))
         THEN <<UtxoOf(Head(data), address)>> \o FilterEntries(Tail(data), address)
         ELSE FilterEntries(Tail(data), address)

\* _fetch_utxos answering a failed request with a funded output it knew
FetchUtxos_KnownOnFailure(reply, address) ==
    IF ~reply.ok
    THEN <<UtxoOf(IndexerEntry(2000, TRUE, <<"funding", 1>>, 0, TRUE), address)>>
    ELSE IF \E i \in 1..Len(reply.data) : ~reply.data[i].value_num THEN <<>>
    ELSE FilterEntries(reply.data, address)

\* BsvService._fetch_utxos.  reply.ok = FALSE is a failed request
\* (RequestException); an entry whose 'value' does not convert makes int()
\* raise, which the second except clause turns into the empty list.
FetchUtxos(reply, address) ==
    IF ~reply.ok THEN <<>>
    ELSE IF \E i \in 1..Len(reply.data) : ~reply.data[i].value_num THEN <<>>
    ELSE FilterEntries(reply.data, address)

(***************************************************************************)
(* Anchor transaction builder                                              *)
(***************************************************************************)
TxOutput(sats, script_pubkey) == [sats |-> sats, script_pubkey |-> script_pubkey]

\* tx.txid(): the hash of the signed transaction
TxidOf(tx) == <<"txid", tx.inputs, tx.outputs>>

\* fee = int(estimated_size_bytes * fee_rate); fee = max(1, fee)
CalcFee(estimated_size_bytes) ==
    Max(min_fee, (estimated_size_bytes * fee_rate_num) \div fee_rate_den)

\* ChangeSats with the fee left out
ChangeSats_WithoutFee(sats, fee) == sats - dust_amount

\* change_sats = utxo_to_spend['sats'] - dust_amount - fee
ChangeSats(sats, fee) == sats - dust_amount - fee

\* Insufficient with the boundary value refused as well
Insufficient_Inclusive(change_sats) == change_sats <= 0

\* "if change_sats < 0": the selected output cannot pay dust and fee
Insufficient(change_sats) == change_sats < 0

\* AddsChange with change of exactly the dust threshold dropped
AddsChange_Strict(change_sats) == change_sats > dust_amount

\* "if change_sats >= dust_amount": a change output is added
AddsChange(change_sats) == change_sats >= dust_amount

\* the temporary change output left in the transaction
Pop_Forgotten(outputs) == outputs

\* t.outputs.pop(): the temporary change output is removed again
Pop(outputs) == SubSeq(outputs, 1, Len(outputs) - 1)

\* the last fetched output selected
SelectUtxo_Last(utxos) == utxos[Len(utxos)]

\* utxo_to_spend = utxos[0]
SelectUtxo(utxos) == utxos[1]

NoTx == [inputs |-> <<>>, outputs |-> <<>>, signed |-> FALSE]

\* BsvService._create_anchor_tx after the fetch: utxos is the fetched list,
\* estimated_size_bytes the value of t.estimated_size()
CreateAnchorTx(master, derived_key, utxos, estimated_size_bytes) ==
    IF utxos = <<>>
    THEN [ok |-> FALSE, error |-> "No spendable UTXOs found", tx |-> NoTx,
          fee |-> 0, estimated_size |-> 0, change_sats |-> 0]
    ELSE
    LET utxo_to_spend == SelectUtxo(utxos)
        inputs == <<utxo_to_spend>>
        dust_out == TxOutput(dust_amount, P2pkh(Address(derived_key)))
        temp_out == TxOutput(temp_change_sats, P2pkh(Address(master)))
        with_temp == <<dust_out, temp_out>>
        outputs == Pop(with_temp)
        fee == CalcFee(estimated_size_bytes)
        change_sats == ChangeSats(utxo_to_spend.sats, fee)
        change_out == TxOutput(change_sats, P2pkh(Address(master)))
        final_outputs == IF AddsChange(change_sats)
                         THEN Append(outputs, change_out) ELSE outputs
    IN IF Insufficient(change_sats)
       THEN [ok |-> FALSE, error |-> "Insufficient funds in selected UTXO",
             tx |-> NoTx, fee |-> fee,
             estimated_size |-> estimated_size_bytes,
             change_sats |-> change_sats]
       ELSE [ok |-> TRUE, error |-> "",
             tx |-> [inputs |-> inputs, outputs |-> final_outputs,
                     signed |-> TRUE],
             fee |-> fee, estimated_size |-> estimated_size_bytes,
             change_sats |-> change_sats]

(***************************************************************************)
(* The store                                                               *)
(***************************************************************************)
\* the classes that can be injected as db_service
DbServiceKinds == {"PostgresDataStore", "DbService"}

\* init_di: BsvService(db_service=di[PostgresDataStore], ...)
WiredDbService == "PostgresDataStore"

\* the methods each class defines; calling any other raises AttributeError
HasMethod(kind, method) ==
    IF kind = "PostgresDataStore"
    THEN method \in {"store_issuer_url", "get_issuer_url", "store_vcsl", "get_vcsl"}
    ELSE method \in {"update_issuer_url", "store_issuer_anchor", "get_issuer_url",
                     "store_vcsl", "get_vcsl"}

NoRow == [present |-> FALSE, value |-> NoValue, txid |-> NoTxid]

\* PostgresDataStore.store_issuer_url: INSERT ... ON CONFLICT DO UPDATE
store_issuer_url(table, issuer_id, url, txid) ==
    [table EXCEPT ![issuer_id] = [present |-> TRUE, value |-> url, txid |-> txid]]

\* store_vcsl with ON CONFLICT DO NOTHING: an existing row is kept
store_vcsl_InsertOnly(table, id, ipns, txid) ==
    IF table[id].present THEN table
    ELSE [table EXCEPT ![id] = [present |-> TRUE, value |-> ipns, txid |-> txid]]

\* PostgresDataStore.store_vcsl: INSERT ... ON CONFLICT DO UPDATE
store_vcsl(table, id, ipns, txid) ==
    [table EXCEPT ![id] = [present |-> TRUE, value |-> ipns, txid |-> txid]]

\* PostgresDataStore.get_issuer_url / get_vcsl: the row, or None
get_row(table, id) == table[id]

\* db_service.update_issuer_url(issuer_id, new_url): upsert of the url
\* without a transaction id
update_issuer_url(table, issuer_id, new_url) ==
    store_issuer_url(table, issuer_id, new_url, NoTxid)

\* db_service.store_issuer_anchor(issuer_id, txid): records the anchor of
\* the stored url
store_issuer_anchor(table, issuer_id, txid) ==
    IF table[issuer_id].present
    THEN [table EXCEPT ![issuer_id].txid = txid]
    ELSE table

(***************************************************************************)
(* Control flow of the service operations                                  *)
(***************************************************************************)
Ops == {"set_issuer_url", "add_vcsl", "get_issuer_url", "get_vcsl"}

\* first step of each operation
FirstPc(op) ==
    CASE op = "set_issuer_url" -> "update"
      [] op = "add_vcsl" -> "anchor"
      [] OTHER -> "read"

\* NextPc with add_vcsl going on to the store write after a failed anchor
NextPc_StoreAfterFailedAnchor(op, at, ok) ==
    CASE at = "update" -> IF ok THEN "anchor" ELSE "done"
      [] at = "anchor" -> IF ok THEN "broadcast"
                          ELSE IF op = "add_vcsl" THEN "store" ELSE "done"
      [] at = "broadcast" -> IF ok \/ op = "add_vcsl" THEN "store" ELSE "done"
      [] OTHER -> "done"

\* NextPc with set_issuer_url anchoring although the url write failed
NextPc_AnchorAfterFailedUpdate(op, at, ok) ==
    CASE at = "update" -> "anchor"
      [] at = "anchor" -> IF ok THEN "broadcast" ELSE "done"
      [] at = "broadcast" -> IF ok THEN "store" ELSE "done"
      [] OTHER -> "done"

\* NextPc with a failed broadcast retried with a newly built transaction
NextPc_RetryBroadcast(op, at, ok) ==
    CASE at = "update" -> IF ok THEN "anchor" ELSE "done"
      [] at = "anchor" -> IF ok THEN "broadcast" ELSE "done"
      [] at = "broadcast" -> IF ok THEN "store" ELSE "anchor"
      [] OTHER -> "done"

\* Where a call continues after the step `at` ended with `ok`.
\* set_issuer_url: a failed url write raises, a failed anchor returns None;
\* add_vcsl: a failed anchor raises.  Nothing is retried.
NextPc(op, at, ok) ==
    CASE at = "update" -> IF ok THEN "anchor" ELSE "done"
      [] at = "anchor" -> IF ok THEN "broadcast" ELSE "done"
      [] at = "broadcast" -> IF ok THEN "store" ELSE "done"
      [] OTHER -> "done"

\* outcome of a service call: a returned value or a raised exception of
\* class exc whose message msg embeds the transaction id msg_txid
Pending == [status |-> "pending", value |-> NoValue, txid |-> NoTxid,
            exc |-> "", msg |-> "", msg_txid |-> NoTxid]
ReturnedRow(v, t) == [status |-> "returned", value |-> v, txid |-> t,
                      exc |-> "", msg |-> "", msg_txid |-> NoTxid]
Returned(t) == ReturnedRow(NoValue, t)
Raised(exc, msg, t) == [status |-> "raised", value |-> NoValue, txid |-> NoTxid,
                        exc |-> exc, msg |-> msg, msg_txid |-> t]

\* SetIssuerUrlResult with a failed anchor raising as in add_vcsl
SetIssuerUrlResult_RaiseOnAnchorFailure(at, ok, t) ==
    CASE at = "update" ->
            Raised("Exception", "Failed to update issuer URL in database", NoTxid)
      [] at = "store" -> Returned(t)
      [] OTHER -> Raised("Exception", "Failed to anchor issuer URL update", NoTxid)

\* SetIssuerUrlResult with the failed anchor-txid write caught by the outer
\* except clause
SetIssuerUrlResult_NoneOnStoreFailure(at, ok, t) ==
    CASE at = "update" ->
            Raised("Exception", "Failed to update issuer URL in database", NoTxid)
      [] at = "store" -> IF ok THEN Returned(t) ELSE Returned(NoTxid)
      [] OTHER -> Returned(NoTxid)

\* BsvService.set_issuer_url: what the call returns or raises when it ends
\* at step `at`
SetIssuerUrlResult(at, ok, t) ==
    CASE at = "update" ->
            Raised("Exception", "Failed to update issuer URL in database", NoTxid)
      [] at = "store" -> Returned(t)
      [] OTHER -> Returned(NoTxid)

\* BsvService.add_vcsl: what the call returns or raises when it ends at
\* step `at`
AddVcslResult(at, ok, t) ==
    CASE at = "store" /\ ok -> Returned(t)
      [] at = "store" /\ ~ok ->
            Raised("Exception", "anchored, but failed to store in DB", t)
      [] OTHER ->
            Raised("Exception", "Failed to create BSV anchor for VCSL", NoTxid)

ServiceResult(op, at, ok, t) ==
    IF op = "set_issuer_url" THEN SetIssuerUrlResult(at, ok, t)
    ELSE AddVcslResult(at, ok, t)

(***************************************************************************)
(* HTTP handlers                                                           *)
(***************************************************************************)
\* an HTTP answer: status code, the body's value and txid, and for an error
\* the detail text with the transaction id it embeds
HttpResponse(code, v, t, detail, dt) ==
    [code |-> code, value |-> v, txid |-> t, detail |-> detail, detail_txid |-> dt]

NoResponse == HttpResponse(0, NoValue, NoTxid, "", NoTxid)

\* "except Exception as e": HTTPException derives from Exception
ExceptExceptionCatches(cls) == cls \in {"Exception", "HTTPException"}

\* VcslRouter.set_issuer_url
RouterSetIssuerUrl(res) ==
    IF res.status = "raised"
    THEN HttpResponse(500, NoValue, NoTxid, res.msg, res.msg_txid)
    ELSE IF res.txid # NoTxid
    THEN HttpResponse(200, NoValue, res.txid, "", NoTxid)
    ELSE HttpResponse(200, NoValue, NoTxid,
                      "URL updated off-chain, anchoring failed or skipped", NoTxid)

\* VcslRouter.add_vcsl
RouterAddVcsl(res) ==
    IF res.status = "raised"
    THEN HttpResponse(500, NoValue, NoTxid, res.msg, res.msg_txid)
    ELSE HttpResponse(200, NoValue, res.txid, "", NoTxid)

\* BsvService.get_issuer_url / get_vcsl: a failed query and a missing row
\* both give None
ServiceGet(db_ok, row) ==
    IF db_ok /\ row.present THEN ReturnedRow(row.value, row.txid)
    ELSE ReturnedRow(NoValue, NoTxid)

\* VcslRouter.get_issuer_url / get_vcsl: the HTTPException(404) is raised
\* inside the try block, whose except clause answers 500
RouterGet(res) ==
    IF res.value # NoValue
    THEN HttpResponse(200, res.value, res.txid, "", NoTxid)
    ELSE IF ExceptExceptionCatches("HTTPException")
    THEN HttpResponse(500, NoValue, NoTxid, "404: not found", NoTxid)
    ELSE HttpResponse(404, NoValue, NoTxid, "not found", NoTxid)

RouterResponse(op, res) ==
    CASE op = "set_issuer_url" -> RouterSetIssuerUrl(res)
      [] op = "add_vcsl" -> RouterAddVcsl(res)
      [] OTHER -> RouterGet(res)

(***************************************************************************)
(* State                                                                   *)
(***************************************************************************)
VARIABLES
    db_service,    \* class of the injected store
    issuer_urls,   \* table issuer_urls: issuer_id -> row
    vcsl_data,     \* table vcsl_data: vcsl_id -> row
    unspent,       \* outputs of the wallet address that are unspent on chain
    spent,         \* outputs of the wallet address that have been spent
    accepted,      \* ids of the transactions the network accepted
    pc,            \* step each call is at
    req,           \* operation and arguments of each call
    anchor,        \* result of _create_anchor_tx in each call
    txid,          \* local txid of each call (result of _broadcast_tx)
    result,        \* what the service call returned or raised
    response,      \* the HTTP answer of the handler
    log,           \* the steps each call has performed, in order
    fetch          \* the examined call of _fetch_utxos: the indexer's reply
                   \* and the list returned (set when the builder is run
                   \* on its own)

chain == <<unspent, spent, accepted>>
store == <<issuer_urls, vcsl_data>>
callvars == <<pc, req, anchor, txid, result, response, log>>
vars == <<db_service, issuer_urls, vcsl_data, unspent, spent, accepted,
          pc, req, anchor, txid, result, response, log, invocations, fetch>>

\* self.wallet_key = Key(wif_key, network=self.network)
wallet_key == MasterKey("BSV_WIF_KEY")

\* no call of _fetch_utxos is examined
NoFetch == [reply |-> [ok |-> FALSE, data |-> <<>>], utxos |-> <<>>, size |-> 0]

NoRequest == [op |-> "", id |-> "", arg |-> NoValue]
NoAnchor == [ok |-> FALSE, error |-> "", tx |-> NoTx, fee |-> 0,
             estimated_size |-> 0, change_sats |-> 0]

\* an output of the wallet address as the chain knows it
Outpoint(t, index, sats) == [txid |-> t, index |-> index, sats |-> sats]
OutpointOf(utxo) == Outpoint(utxo.txid, utxo.index, utxo.sats)

FundingTxid(n) == <<"funding", n>>

\* the wallet starts with one or two funded outputs
InitialUnspent ==
    {{Outpoint(FundingTxid(1), 0, v)} : v \in FundingValues}
    \cup {{Outpoint(FundingTxid(1), 0, 2000), Outpoint(FundingTxid(2), 1, 1000)}}

Init ==
    /\ db_service \in DbServiceKinds
    /\ issuer_urls = [i \in Ids |-> NoRow]
    /\ vcsl_data = [i \in Ids |-> NoRow]
    /\ unspent \in InitialUnspent
    /\ spent = {}
    /\ accepted = {}
    /\ pc = [c \in Calls |-> "idle"]
    /\ req = [c \in Calls |-> NoRequest]
    /\ anchor = [c \in Calls |-> NoAnchor]
    /\ txid = [c \in Calls |-> NoTxid]
    /\ result = [c \in Calls |-> Pending]
    /\ response = [c \in Calls |-> NoResponse]
    /\ log = [c \in Calls |-> <<>>]
    /\ invocations = 0
    /\ fetch = NoFetch

Entry(step, outcome) == [step |-> step, outcome |-> outcome]
OkFail(ok) == IF ok THEN "ok" ELSE "fail"

\* a request for one of the operations `ops` arrives at the router, a
\* set_issuer_url request with one of the urls `urls`, an add_vcsl request
\* with one of the pointers `pointers`
InvokeWith(c, ops, urls, pointers) ==
    /\ pc[c] \in {"idle", "done"}
    /\ invocations < MaxInvocations
    /\ \E op \in ops, id \in Ids :
         \E arg \in (IF op = "set_issuer_url" THEN urls
                     ELSE IF op = "add_vcsl" THEN pointers ELSE {NoValue}) :
            /\ req' = [req EXCEPT ![c] = [op |-> op, id |-> id, arg |-> arg]]
            /\ pc' = [pc EXCEPT ![c] = FirstPc(op)]
    /\ anchor' = [anchor EXCEPT ![c] = NoAnchor]
    /\ txid' = [txid EXCEPT ![c] = NoTxid]
    /\ result' = [result EXCEPT ![c] = Pending]
    /\ response' = [response EXCEPT ![c] = NoResponse]
    /\ log' = [log EXCEPT ![c] = <<>>]
    /\ invocations' = invocations + 1
    /\ UNCHANGED <<fetch, db_service, store, chain>>

\* a request arrives at the router
Invoke(c) == InvokeWith(c, Ops, Urls, Pointers)

\* the call ends at step `at`: the service returns or raises and the
\* handler answers
Finish(c, at, ok, t) ==
    LET res == ServiceResult(req[c].op, at, ok, t)
    IN /\ result' = [result EXCEPT ![c] = res]
       /\ response' = [response EXCEPT ![c] = RouterResponse(req[c].op, res)]

\* the call moves from step `at` to the next one, ending if that is "done"
Advance(c, at, ok, t) ==
    LET next == NextPc(req[c].op, at, ok)
    IN /\ pc' = [pc EXCEPT ![c] = next]
       /\ IF next = "done" THEN Finish(c, at, ok, t)
          ELSE UNCHANGED <<result, response>>

(***************************************************************************)
(* The external chain indexer and network                                  *)
(***************************************************************************)
\* entries the filter of _fetch_utxos has to drop, and one whose value
\* does not convert with int()
MalformedEntries ==
    { IndexerEntry(0, TRUE, FundingTxid(1), 0, TRUE),
      IndexerEntry(600, TRUE, NoTxid, 0, TRUE),
      IndexerEntry(600, TRUE, FundingTxid(1), 0, FALSE),
      IndexerEntry(600, FALSE, FundingTxid(1), 0, TRUE) }

\* The indexer lists outputs of the address in any order; its view can lag
\* behind the chain, so an output that was spent can still be listed.
IndexerEntries ==
    { IndexerEntry(o.sats, TRUE, o.txid, o.index, TRUE) : o \in unspent \cup spent }
    \cup MalformedEntries

IndexerReplies ==
    { [ok |-> FALSE, data |-> <<>>] }
    \cup { [ok |-> TRUE, data |-> d] :
             d \in UNION { [1..n -> IndexerEntries] : n \in 0..MaxListLen } }

\* what a submission can lead to: the endpoint accepts and answers the id,
\* accepts and answers something else, rejects or cannot be reached, or
\* accepts while the answer is lost (timeout)
BroadcastOutcomes == {"accepted", "mismatch", "rejected", "lost_reply"}
NetworkAccepts(outcome) == outcome \in {"accepted", "mismatch", "lost_reply"}

\* the HTTP reply of the submission endpoint as requests.post sees it
SubmitReply(tx, outcome) ==
    CASE outcome = "accepted" -> [ok |-> TRUE, text |-> TxidOf(tx)]
      [] outcome = "mismatch" -> [ok |-> TRUE, text |-> <<"unexpected response">>]
      [] OTHER -> [ok |-> FALSE, text |-> NoTxid]

\* _broadcast_tx returning what the endpoint answered
BroadcastTx_TrustsReply(tx, reply) ==
    IF ~reply.ok THEN NoTxid ELSE reply.text

\* BsvService._broadcast_tx: the returned id, NoTxid when it raises
BroadcastTx(tx, reply) ==
    IF ~reply.ok THEN NoTxid
    ELSE IF reply.text = TxidOf(tx) THEN reply.text
    ELSE TxidOf(tx)

\* UnspentAfter with the spent output still spendable
UnspentAfter_KeepsSpent(tx) ==
    LET created == IF Len(tx.outputs) >= 2
                   THEN {Outpoint(TxidOf(tx), 1, tx.outputs[2].sats)}
                   ELSE {}
    IN unspent \cup created

\* the outputs of the wallet address after the network accepted tx
UnspentAfter(tx) ==
    LET o == OutpointOf(tx.inputs[1])
        created == IF Len(tx.outputs) >= 2
                   THEN {Outpoint(TxidOf(tx), 1, tx.outputs[2].sats)}
                   ELSE {}
    IN (unspent \ {o}) \cup created

(***************************************************************************)
(* Steps of the calls                                                      *)
(***************************************************************************)
\* set_issuer_url: self.db_service.update_issuer_url(...)
UpdateIssuerUrl(c) ==
    /\ pc[c] = "update"
    /\ \E db_ok \in BOOLEAN :
         LET ok == db_ok /\ HasMethod(db_service, "update_issuer_url")
         IN /\ issuer_urls' = IF ok
                              THEN update_issuer_url(issuer_urls, req[c].id, req[c].arg)
                              ELSE issuer_urls
            /\ log' = [log EXCEPT ![c] = Append(@, Entry("update_issuer_url", OkFail(ok)))]
            /\ Advance(c, "update", ok, NoTxid)
    /\ UNCHANGED <<fetch, db_service, vcsl_data, chain, req, anchor, txid, invocations>>

\* the key_id the operation derives its key for
KeyId(r) == IF r.op = "set_issuer_url" THEN IssuerKeyId(r.id) ELSE VcslKeyId(r.id)

\* set_issuer_url / add_vcsl: _derive_brc42_key, then _create_anchor_tx
\* with its call of _fetch_utxos.  derive_ok = FALSE is Key.from_int
\* refusing the child scalar.
AnchorStep(c) ==
    /\ pc[c] = "anchor"
    /\ \E derive_ok \in BOOLEAN, reply \in IndexerReplies, size \in EstimatedSizes :
         LET derived_key == DeriveBrc42Key(wallet_key, KeyId(req[c]))
             utxos == FetchUtxos(reply, Address(wallet_key))
             built == CreateAnchorTx(wallet_key, derived_key, utxos, size)
         IN IF ~derive_ok
            THEN /\ log' = [log EXCEPT ![c] = Append(@, Entry("derive", "fail"))]
                 /\ anchor' = anchor
                 /\ Advance(c, "anchor", FALSE, NoTxid)
            ELSE /\ log' = [log EXCEPT ![c] = @ \o
                       << Entry("derive", "ok"),
                          Entry("fetch", IF ~reply.ok THEN "unreachable"
                                         ELSE IF utxos = <<>> THEN "empty"
                                         ELSE "ok"),
                          Entry("build", OkFail(built.ok)) >>]
                 /\ anchor' = [anchor EXCEPT ![c] = built]
                 /\ Advance(c, "anchor", built.ok, NoTxid)
    /\ UNCHANGED <<fetch, db_service, store, chain, req, txid, invocations>>

\* set_issuer_url / add_vcsl: _broadcast_tx.  The network accepts a
\* transaction only if the output it spends is unspent.
Broadcast(c) ==
    /\ pc[c] = "broadcast"
    /\ \E outcome \in BroadcastOutcomes :
         LET tx == anchor[c].tx
             t == BroadcastTx(tx, SubmitReply(tx, outcome))
         IN /\ NetworkAccepts(outcome) => OutpointOf(tx.inputs[1]) \in unspent
            /\ IF NetworkAccepts(outcome)
               THEN /\ unspent' = UnspentAfter(tx)
                    /\ spent' = spent \cup {OutpointOf(tx.inputs[1])}
                    /\ accepted' = accepted \cup {TxidOf(tx)}
               ELSE UNCHANGED chain
            /\ txid' = [txid EXCEPT ![c] = t]
            /\ log' = [log EXCEPT ![c] = Append(@, Entry("broadcast", outcome))]
            /\ Advance(c, "broadcast", t # NoTxid, t)
    /\ UNCHANGED <<fetch, db_service, store, req, anchor, invocations>>

\* add_vcsl: self.db_service.store_vcsl(id=id, ipns=ipns, txid=txid)
StoreVcsl(c) ==
    /\ pc[c] = "store"
    /\ req[c].op = "add_vcsl"
    /\ \E db_ok \in BOOLEAN :
         LET ok == db_ok /\ HasMethod(db_service, "store_vcsl")
         IN /\ vcsl_data' = IF ok
                            THEN store_vcsl(vcsl_data, req[c].id, req[c].arg, txid[c])
                            ELSE vcsl_data
            /\ log' = [log EXCEPT ![c] = Append(@, Entry("store_vcsl", OkFail(ok)))]
            /\ Advance(c, "store", ok, txid[c])
    /\ UNCHANGED <<fetch, db_service, issuer_urls, chain, req, anchor, txid, invocations>>

\* set_issuer_url: self.db_service.store_issuer_anchor(issuer_id=..., txid=txid)
StoreIssuerAnchor(c) ==
    /\ pc[c] = "store"
    /\ req[c].op = "set_issuer_url"
    /\ \E db_ok \in BOOLEAN :
         LET ok == db_ok /\ HasMethod(db_service, "store_issuer_anchor")
         IN /\ issuer_urls' = IF ok
                              THEN store_issuer_anchor(issuer_urls, req[c].id, txid[c])
                              ELSE issuer_urls
            /\ log' = [log EXCEPT ![c] = Append(@, Entry("store_issuer_anchor", OkFail(ok)))]
            /\ Advance(c, "store", ok, txid[c])
    /\ UNCHANGED <<fetch, db_service, vcsl_data, chain, req, anchor, txid, invocations>>

\* get_issuer_url / get_vcsl: the store query, the service and the handler
Read(c) ==
    /\ pc[c] = "read"
    /\ \E db_ok \in BOOLEAN :
         LET table == IF req[c].op = "get_vcsl" THEN vcsl_data ELSE issuer_urls
             row == get_row(table, req[c].id)
             ok == db_ok /\ HasMethod(db_service, req[c].op)
             res == ServiceGet(ok, row)
         IN /\ log' = [log EXCEPT ![c] = Append(@, Entry(req[c].op,
                          IF ~ok THEN "error"
                          ELSE IF row.present THEN "found" ELSE "not_found"))]
            /\ result' = [result EXCEPT ![c] = res]
            /\ response' = [response EXCEPT ![c] = RouterResponse(req[c].op, res)]
            /\ pc' = [pc EXCEPT ![c] = "done"]
    /\ UNCHANGED <<fetch, db_service, store, chain, req, anchor, txid, invocations>>

Next ==
    \E c \in Calls :
        \/ Invoke(c)
        \/ UpdateIssuerUrl(c)
        \/ AnchorStep(c)
        \/ Broadcast(c)
        \/ StoreVcsl(c)
        \/ StoreIssuerAnchor(c)
        \/ Read(c)

Spec == Init /\ [][Next]_vars

TypeOK ==
    /\ db_service \in DbServiceKinds
    /\ invocations \in 0..MaxInvocations
    /\ \A c \in Calls : pc[c] \in {"idle", "update", "anchor", "broadcast", "store", "read", "done"}

(***************************************************************************)
(* The builder on its own: one build from a funding output of any value    *)
(* and any estimated size                                                  *)
(***************************************************************************)
BuildValues == (540..1210) \cup {2000}
BuildSizes == (0..5) \cup (224..227)

BuildInit ==
    /\ db_service = "PostgresDataStore"
    /\ issuer_urls = [i \in Ids |-> NoRow]
    /\ vcsl_data = [i \in Ids |-> NoRow]
    /\ unspent = {}
    /\ spent = {}
    /\ accepted = {}
    /\ pc = [c \in Calls |-> "idle"]
    /\ req = [c \in Calls |-> NoRequest]
    /\ anchor = [c \in Calls |-> NoAnchor]
    /\ txid = [c \in Calls |-> NoTxid]
    /\ result = [c \in Calls |-> Pending]
    /\ response = [c \in Calls |-> NoResponse]
    /\ log = [c \in Calls |-> <<>>]
    /\ invocations = 0
    /\ fetch = NoFetch

\* entries of the listings the builder is run on: two funded outputs and
\* the malformed entries
BuildEntries ==
    { IndexerEntry(600, TRUE, FundingTxid(1), 0, TRUE),
      IndexerEntry(2000, TRUE, FundingTxid(2), 1, TRUE) }
    \cup MalformedEntries

\* the indexer replies the builder is run on: a failed query, one funded
\* output of any value, and every listing of the entries above
BuildReplies ==
    { [ok |-> FALSE, data |-> <<>>] }
    \cup { [ok |-> TRUE, data |-> <<IndexerEntry(v, TRUE, FundingTxid(1), 0, TRUE)>>] :
             v \in BuildValues }
    \cup { [ok |-> TRUE, data |-> d] :
             d \in UNION { [1..n -> BuildEntries] : n \in 0..MaxListLen } }

\* _create_anchor_tx with its call of _fetch_utxos, as add_vcsl runs it
BuildStep ==
    /\ fetch = NoFetch
    /\ anchor[1] = NoAnchor
    /\ \E reply \in BuildReplies, size \in BuildSizes, id \in Ids :
         LET utxos == FetchUtxos(reply, Address(wallet_key))
             r == [op |-> "add_vcsl", id |-> id, arg |-> "p1"]
             derived_key == DeriveBrc42Key(wallet_key, KeyId(r))
         IN /\ fetch' = [reply |-> reply, utxos |-> utxos, size |-> size]
            /\ req' = [req EXCEPT ![1] = r]
            /\ anchor' = [anchor EXCEPT ![1] =
                             CreateAnchorTx(wallet_key, derived_key, utxos, size)]
    /\ UNCHANGED <<db_service, store, chain, pc, txid, result, response,
                   log, invocations>>

SpecBuild == BuildInit /\ [][BuildStep]_vars

(***************************************************************************)
(* The VCSL records on their own: add_vcsl and get_vcsl requests with two  *)
(* pointers against the wired store                                        *)
(***************************************************************************)
VcslPointers == {"p1", "p2"}

VcslInit ==
    /\ Init
    /\ db_service = "PostgresDataStore"
    /\ Cardinality(unspent) = 2

InvokeVcsl(c) == InvokeWith(c, {"add_vcsl", "get_vcsl"}, Urls, VcslPointers)

VcslNext ==
    \E c \in Calls :
        \/ InvokeVcsl(c)
        \/ AnchorStep(c)
        \/ Broadcast(c)
        \/ StoreVcsl(c)
        \/ Read(c)

SpecVcsl == VcslInit /\ [][VcslNext]_vars

(***************************************************************************)
(* The issuer records on their own: set_issuer_url and get_issuer_url      *)
(* requests with two urls                                                  *)
(***************************************************************************)
IssuerUrls == {"u1", "u2"}

IssuerInit ==
    /\ Init
    /\ Cardinality(unspent) = 2

InvokeIssuer(c) ==
    InvokeWith(c, {"set_issuer_url", "get_issuer_url"}, IssuerUrls, Pointers)

IssuerNext ==
    \E c \in Calls :
        \/ InvokeIssuer(c)
        \/ UpdateIssuerUrl(c)
        \/ AnchorStep(c)
        \/ Broadcast(c)
        \/ StoreIssuerAnchor(c)
        \/ Read(c)

SpecIssuer == IssuerInit /\ [][IssuerNext]_vars

(***************************************************************************)
(* The derivation on its own: each request slot derives the key of an      *)
(* issuer or VCSL record and builds its anchor from a fixed funding output *)
(***************************************************************************)
\* identifiers that contain the separator and the prefixes of the key ids
DeriveIds == {"", "a", "b", "a/", "/a", "vcsl/a", "issuer/a"}

DeriveUtxo == UtxoOf(IndexerEntry(2000, TRUE, FundingTxid(1), 0, TRUE),
                     Address(wallet_key))

DeriveStep(c) ==
    /\ \E op \in {"set_issuer_url", "add_vcsl"}, id \in DeriveIds :
         LET r == [op |-> op, id |-> id, arg |-> "u1"]
             derived_key == DeriveBrc42Key(wallet_key, KeyId(r))
         IN /\ req' = [req EXCEPT ![c] = r]
            /\ anchor' = [anchor EXCEPT ![c] =
                             CreateAnchorTx(wallet_key, derived_key,
                                            <<DeriveUtxo>>, 225)]
    /\ UNCHANGED <<fetch, db_service, store, chain, pc, txid, result, response,
                   log, invocations>>

DeriveNext == \E c \in Calls : DeriveStep(c)

SpecDerive == BuildInit /\ [][DeriveNext]_vars

(***************************************************************************)
(* Properties                                                              *)
(***************************************************************************)
\* call c has performed `step` with one of the outcomes `outs`
Has(c, step, outs) ==
    \E i \in DOMAIN log[c] : log[c][i].step = step /\ log[c][i].outcome \in outs

\* number of times call c has performed `step`
Count(c, step) == Cardinality({i \in DOMAIN log[c] : log[c][i].step = step})

BroadcastOk == {"accepted", "mismatch"}
BroadcastFailed == {"rejected", "lost_reply"}
OkOrFail == {"ok", "fail"}

\* derivation, fetch, build or broadcast of call c failed
AnchorFailed(c) ==
    \/ Has(c, "derive", {"fail"})
    \/ Has(c, "fetch", {"empty", "unreachable"})
    \/ Has(c, "build", {"fail"})
    \/ Has(c, "broadcast", BroadcastFailed)

\* C1: in add_vcsl the store write store_vcsl is invoked only directly after
\* a successful broadcast of the same call; a call whose derivation, fetch,
\* build or broadcast failed raises, has made no store write, and its
\* failing step leaves the table vcsl_data unchanged.
C1_StoreOnlyAfterBroadcast ==
    /\ [](\A c \in Calls : req[c].op = "add_vcsl" =>
            /\ \A i \in DOMAIN log[c] : log[c][i].step = "store_vcsl" =>
                  /\ i > 1
                  /\ log[c][i-1].step = "broadcast"
                  /\ log[c][i-1].outcome \in BroadcastOk
            /\ AnchorFailed(c) =>
                  /\ pc[c] = "done"
                  /\ result[c].status = "raised"
                  /\ ~Has(c, "store_vcsl", OkOrFail))
    /\ [][\A c \in Calls :
            (req[c].op = "add_vcsl" /\ pc[c] \in {"anchor", "broadcast"}
                /\ pc'[c] # pc[c])
            => vcsl_data' = vcsl_data]_vars

\* an add_vcsl call whose broadcast was rejected has ended with an error
\* and there is no row for its id
C1_Witness ==
    \E c \in Calls :
        /\ req[c].op = "add_vcsl"
        /\ pc[c] = "done"
        /\ Has(c, "broadcast", {"rejected"})
        /\ result[c].status = "raised"
        /\ ~vcsl_data[req[c].id].present

\* the error add_vcsl raises when anchoring itself failed
AnchorFailure == AddVcslResult("broadcast", FALSE, NoTxid)

\* C2: when add_vcsl's broadcast succeeded with id T and store_vcsl then
\* fails, the call raises an error whose kind differs from the kind raised
\* when anchoring failed, and the error carries T.
C2_ReconciliationRequired ==
    \A c \in Calls :
        (/\ req[c].op = "add_vcsl"
         /\ pc[c] = "done"
         /\ Has(c, "broadcast", BroadcastOk)
         /\ Has(c, "store_vcsl", {"fail"}))
        => /\ result[c].status = "raised"
           /\ result[c].exc # AnchorFailure.exc
           /\ result[c].msg_txid = TxidOf(anchor[c].tx)

\* C3: no two calls are at the same time between their UTXO fetch and the
\* end of their broadcast (all calls fund from the one wallet address), so
\* no two calls hold a transaction spending the same output.
C3_ExclusiveFunding ==
    \A c1 \in Calls, c2 \in Calls :
        c1 # c2 => ~(pc[c1] = "broadcast" /\ pc[c2] = "broadcast")

SetIssuerUrlOrder ==
    <<"update_issuer_url", "derive", "fetch", "build", "broadcast",
      "store_issuer_anchor">>

\* C4: a set_issuer_url call performs its steps in the fixed order url
\* write, derivation, fetch, build, broadcast, anchor-txid write; a failed
\* url write ends the call with an error before any of the others; the
\* anchor-txid write follows a successful broadcast and writes that
\* broadcast's transaction id.
C4_SetIssuerUrlOrder ==
    /\ [](\A c \in Calls : req[c].op = "set_issuer_url" =>
            /\ Len(log[c]) <= Len(SetIssuerUrlOrder)
            /\ \A i \in DOMAIN log[c] : log[c][i].step = SetIssuerUrlOrder[i]
            /\ Has(c, "update_issuer_url", {"fail"}) =>
                  /\ Len(log[c]) = 1
                  /\ pc[c] = "done"
                  /\ result[c].status = "raised"
            /\ Has(c, "store_issuer_anchor", OkOrFail) =>
                  /\ Has(c, "broadcast", BroadcastOk)
                  /\ txid[c] = TxidOf(anchor[c].tx)
                  /\ txid[c] \in accepted)
    /\ [][\A c \in Calls :
            (req[c].op = "set_issuer_url" /\ pc[c] = "store" /\ pc'[c] = "done"
                /\ issuer_urls' # issuer_urls)
            => issuer_urls'[req[c].id].txid = TxidOf(anchor[c].tx)]_vars

\* one set_issuer_url call has ended at its failed url write and another
\* has gone through all six steps
C4_Witness ==
    \E c1 \in Calls, c2 \in Calls :
        /\ req[c1].op = "set_issuer_url"
        /\ req[c2].op = "set_issuer_url"
        /\ log[c1] = <<Entry("update_issuer_url", "fail")>>
        /\ pc[c2] = "done"
        /\ Len(log[c2]) = 6
        /\ Has(c2, "store_issuer_anchor", {"ok"})

\* C5: in set_issuer_url, after a successful url write, a failure of
\* derivation, fetch, build or broadcast ends the call returning None
\* (HTTP 200 without txid) and without an anchor-txid write; the url write
\* stored this call's url and the failing step leaves issuer_urls unchanged.
C5_BestEffortAnchor ==
    /\ [](\A c \in Calls :
            (/\ req[c].op = "set_issuer_url"
             /\ Has(c, "update_issuer_url", {"ok"})
             /\ AnchorFailed(c))
            => /\ pc[c] = "done"
               /\ result[c] = Returned(NoTxid)
               /\ response[c].code = 200
               /\ response[c].txid = NoTxid
               /\ ~Has(c, "store_issuer_anchor", OkOrFail))
    /\ [][\A c \in Calls : req[c].op = "set_issuer_url" =>
            /\ (pc[c] = "update" /\ pc'[c] = "anchor")
                 => /\ issuer_urls'[req[c].id].present
                    /\ issuer_urls'[req[c].id].value = req[c].arg
            /\ (pc[c] \in {"anchor", "broadcast"} /\ pc'[c] = "done")
                 => issuer_urls' = issuer_urls]_vars

\* a set_issuer_url call wrote its url, its broadcast was rejected, it
\* returned None and the url is in the store without an anchor txid
C5_Witness ==
    \E c \in Calls :
        /\ req[c].op = "set_issuer_url"
        /\ pc[c] = "done"
        /\ Has(c, "update_issuer_url", {"ok"})
        /\ Has(c, "broadcast", {"rejected"})
        /\ result[c] = Returned(NoTxid)
        /\ issuer_urls[req[c].id].value = req[c].arg
        /\ issuer_urls[req[c].id].txid = NoTxid

\* C6: in set_issuer_url, when the broadcast succeeded with id T and the
\* anchor-txid write then fails, the call returns T (HTTP 200 with txid T),
\* and T is the id of a transaction the network accepted.
C6_AnchorTxidReturned ==
    \A c \in Calls :
        (/\ req[c].op = "set_issuer_url"
         /\ pc[c] = "done"
         /\ Has(c, "broadcast", BroadcastOk)
         /\ Has(c, "store_issuer_anchor", {"fail"}))
        => /\ result[c].status = "returned"
           /\ result[c].txid = TxidOf(anchor[c].tx)
           /\ result[c].txid \in accepted
           /\ response[c].code = 200
           /\ response[c].txid = result[c].txid

\* a set_issuer_url call whose broadcast was accepted and whose anchor-txid
\* write failed has ended
C6_Witness ==
    \E c \in Calls :
        /\ req[c].op = "set_issuer_url"
        /\ pc[c] = "done"
        /\ Has(c, "broadcast", {"accepted"})
        /\ Has(c, "store_issuer_anchor", {"fail"})
        /\ issuer_urls[req[c].id].txid = NoTxid

\* C7: within one call at most one transaction is built and at most one
\* broadcast is submitted; a broadcast that failed or timed out is the
\* call's last step: the call has ended without a transaction id, add_vcsl
\* with the anchoring error and set_issuer_url with None.
C7_NoRetry ==
    \A c \in Calls :
        /\ Count(c, "build") <= 1
        /\ Count(c, "broadcast") <= 1
        /\ Has(c, "broadcast", BroadcastFailed) =>
              /\ pc[c] = "done"
              /\ log[c][Len(log[c])].step = "broadcast"
              /\ txid[c] = NoTxid
              /\ req[c].op = "add_vcsl" => result[c] = AnchorFailure
              /\ req[c].op = "set_issuer_url" => result[c] = Returned(NoTxid)

\* a call whose broadcast timed out after the network had accepted the
\* transaction has ended
C7_Witness ==
    \E c \in Calls :
        /\ pc[c] = "done"
        /\ Has(c, "broadcast", {"lost_reply"})
        /\ TxidOf(anchor[c].tx) \in accepted

\* C8: get_issuer_url and get_vcsl answer 404 for an id without a stored
\* record, and answer 500 only when the lookup failed for another reason.
C8_NotFoundSignal ==
    \A c \in Calls :
        (req[c].op \in {"get_issuer_url", "get_vcsl"} /\ pc[c] = "done")
        => /\ Has(c, req[c].op, {"not_found"}) => response[c].code = 404
           /\ response[c].code = 500 => Has(c, req[c].op, {"error"})

\* ceil(a / b) for a >= 0, b > 0
CeilDiv(a, b) == (a + b - 1) \div b

\* C9: the fee of every build is max(1, ceil(estimated size * fee rate));
\* a 225-byte estimate with a 2000-sat output gives fee 113 and the two
\* outputs 546 to the derived address and 1341 to the funding address.
C9_FeeIsCeiling ==
    \A c \in Calls :
        (anchor[c] # NoAnchor /\ anchor[c].error # "No spendable UTXOs found")
        => /\ anchor[c].fee =
                Max(1, CeilDiv(anchor[c].estimated_size * fee_rate_num, fee_rate_den))
           /\ (/\ anchor[c].ok
               /\ anchor[c].estimated_size = 225
               /\ anchor[c].tx.inputs[1].sats = 2000)
              => /\ anchor[c].fee = 113
                 /\ Len(anchor[c].tx.outputs) = 2
                 /\ anchor[c].tx.outputs[1].sats = 546
                 /\ anchor[c].tx.outputs[2].sats = 1341
                 /\ anchor[c].tx.outputs[2].script_pubkey = P2pkh(Address(wallet_key))

\* value of the change output of a built transaction, 0 if it has none
ChangeOutput(tx) == IF Len(tx.outputs) >= 2 THEN tx.outputs[2].sats ELSE 0

\* C10 as stated: for every built transaction
\* inputValue = dustOutput + computed fee + (changeOutput or 0).
C10_ConservationAsStated ==
    \A c \in Calls : anchor[c].ok =>
        anchor[c].tx.inputs[1].sats =
            anchor[c].tx.outputs[1].sats + anchor[c].fee + ChangeOutput(anchor[c].tx)

\* C10: for every built transaction the dust output is 546 and, with
\* change = inputValue - 546 - computed fee: change >= 0; if change >= 546
\* there is a change output of exactly change, so that
\* inputValue = dustOutput + fee + changeOutput; otherwise there is no
\* change output and inputValue = dustOutput + fee + change, the change
\* (below 546) being left to the network on top of the computed fee.
C10_Conservation ==
    \A c \in Calls : anchor[c].ok =>
        LET tx == anchor[c].tx
            input == tx.inputs[1].sats
            change == input - tx.outputs[1].sats - anchor[c].fee
        IN /\ tx.outputs[1].sats = dust_amount
           /\ Len(tx.outputs) \in {1, 2}
           /\ change >= 0
           /\ Len(tx.outputs) = 2 =>
                 /\ change >= dust_amount
                 /\ input = tx.outputs[1].sats + anchor[c].fee + ChangeOutput(tx)
           /\ Len(tx.outputs) = 1 => change < dust_amount

\* a transaction was built whose change is positive and below the dust
\* threshold, so it has no change output
C10_Witness ==
    \E c \in Calls :
        /\ anchor[c].ok
        /\ Len(anchor[c].tx.outputs) = 1
        /\ anchor[c].change_sats > 0
        /\ anchor[c].change_sats < dust_amount

\* C11: a selected output of value dust + fee - 1 or less (fee the
\* builder's computed fee; e.g. 600 sats at a 225-byte estimate) makes the
\* build fail with the insufficient-funds error and no transaction is
\* created or signed; a selected output of exactly dust + fee gives a
\* signed transaction without a change output.
C11_InsufficientFundsBoundary ==
    \A c \in Calls : (anchor[c] # NoAnchor /\ fetch.utxos # <<>>) =>
        LET sats == fetch.utxos[1].sats
            fee == anchor[c].fee
        IN /\ fee = CalcFee(fetch.size)
           /\ sats <= dust_amount + fee - 1 =>
                 /\ ~anchor[c].ok
                 /\ anchor[c].error = "Insufficient funds in selected UTXO"
                 /\ anchor[c].tx = NoTx
                 /\ ~anchor[c].tx.signed
           /\ sats = dust_amount + fee =>
                 /\ anchor[c].ok
                 /\ anchor[c].tx.signed
                 /\ anchor[c].tx.inputs = <<fetch.utxos[1]>>
                 /\ Len(anchor[c].tx.outputs) = 1
           /\ (sats = 600 /\ fetch.size = 225) => ~anchor[c].ok

\* the build from an output of exactly dust + fee - 1 = 657 sats at a
\* 225-byte estimate has failed
C11_Witness ==
    /\ fetch.utxos # <<>>
    /\ fetch.size = 225
    /\ fetch.utxos[1].sats = dust_amount + anchor[1].fee - 1
    /\ anchor[1].error = "Insufficient funds in selected UTXO"

\* C12: for every built transaction, with change = inputValue - 546 - fee:
\* if 0 <= change < 546 there is no change output and the network receives
\* fee + change; if change >= 546 there is exactly one change output, of
\* value change, paying the funding address.
C12_DustChangeSuppression ==
    \A c \in Calls : anchor[c].ok =>
        LET tx == anchor[c].tx
            input == tx.inputs[1].sats
            change == input - dust_amount - anchor[c].fee
            paid == IF Len(tx.outputs) = 1 THEN tx.outputs[1].sats
                    ELSE tx.outputs[1].sats + tx.outputs[2].sats
        IN /\ change >= 0
           /\ change < dust_amount =>
                 /\ Len(tx.outputs) = 1
                 /\ input - paid = anchor[c].fee + change
           /\ change >= dust_amount =>
                 /\ Len(tx.outputs) = 2
                 /\ tx.outputs[2].sats = change
                 /\ tx.outputs[2].script_pubkey = P2pkh(Address(wallet_key))
                 /\ input - paid = anchor[c].fee

\* a transaction was built whose change is exactly the dust threshold and
\* is paid by a change output
C12_Witness ==
    \E c \in Calls :
        /\ anchor[c].ok
        /\ Len(anchor[c].tx.outputs) = 2
        /\ anchor[c].tx.outputs[2].sats = dust_amount
        /\ anchor[c].change_sats = dust_amount

\* the row that a successful add_vcsl call c leaves for its id
RowOfCall(c, t) == [present |-> TRUE, value |-> req[c].arg, txid |-> t]

\* C13: the table vcsl_data holds one row per id; every add_vcsl call that
\* completes successfully replaces the row of its id by its own pointer
\* and transaction id and leaves the other rows alone, nothing else changes
\* the table, and get_vcsl returns the pointer and txid of the row (None,
\* None if there is none): the row of an id is that of the most recent
\* successful add_vcsl for it.
C13_UpsertLatestWins ==
    /\ [][\A c \in Calls :
            (req[c].op = "add_vcsl" /\ pc[c] = "store" /\ pc'[c] = "done") =>
                IF result'[c].status = "returned"
                THEN /\ result'[c].txid = TxidOf(anchor[c].tx)
                     /\ vcsl_data' = [vcsl_data EXCEPT ![req[c].id] =
                                         RowOfCall(c, result'[c].txid)]
                ELSE vcsl_data' = vcsl_data]_vars
    /\ [][vcsl_data' # vcsl_data =>
            \E c \in Calls :
                /\ req[c].op = "add_vcsl"
                /\ pc[c] = "store"
                /\ pc'[c] = "done"
                /\ result'[c].status = "returned"]_vars
    /\ [][\A c \in Calls :
            (req[c].op = "get_vcsl" /\ pc[c] = "read" /\ pc'[c] = "done"
                /\ log'[c][Len(log'[c])].outcome # "error") =>
                /\ result'[c].status = "returned"
                /\ result'[c].value = vcsl_data[req[c].id].value
                /\ result'[c].txid = vcsl_data[req[c].id].txid
                /\ ~vcsl_data[req[c].id].present =>
                      (result'[c].value = NoValue /\ result'[c].txid = NoTxid)]_vars

\* two add_vcsl calls for the same id with different pointers have both
\* succeeded and the row of the id is that of one of them, which replaced
\* the other's pointer and transaction id
C13_Witness ==
    \E c1 \in Calls, c2 \in Calls :
        /\ req[c1].op = "add_vcsl" /\ req[c2].op = "add_vcsl"
        /\ req[c1].id = req[c2].id
        /\ req[c1].arg # req[c2].arg
        /\ result[c1].status = "returned" /\ result[c2].status = "returned"
        /\ result[c1].txid # result[c2].txid
        /\ vcsl_data[req[c2].id] = RowOfCall(c2, result[c2].txid)

\* (k + HMAC-SHA256(k, protocol/c)) mod N, written out
ChildScalar(k, c) ==
    <<"add_mod_N", k.scalar,
      <<"hmac_sha256", k.scalar, VCSL_PROTOCOL_ID \o "/" \o c>> >>

\* the address that the anchor transaction built by call c pays to
AnchoredAddress(c) == anchor[c].tx.outputs[1].script_pubkey

DistinctRecords(c1, c2) ==
    req[c1].op # req[c2].op \/ req[c1].id # req[c2].id

\* C15: two records that differ in kind (issuer, VCSL) or in identifier
\* have different context strings, and their anchors pay to different
\* addresses (HMAC-SHA256, the sum mod N and the address hash taken as
\* collision-free).
C15_DerivedKeysUnique ==
    \A c1 \in Calls, c2 \in Calls :
        (anchor[c1].ok /\ anchor[c2].ok /\ DistinctRecords(c1, c2)) =>
            /\ ContextString(VCSL_PROTOCOL_ID, KeyId(req[c1])) #
                   ContextString(VCSL_PROTOCOL_ID, KeyId(req[c2]))
            /\ AnchoredAddress(c1) # AnchoredAddress(c2)

\* an issuer whose id is the key id of a VCSL record, and that record
C15_Witness ==
    \E c1 \in Calls, c2 \in Calls :
        /\ anchor[c1].ok /\ anchor[c2].ok
        /\ req[c1].op = "set_issuer_url" /\ req[c1].id = "vcsl/a"
        /\ req[c2].op = "add_vcsl" /\ req[c2].id = "a"
        /\ AnchoredAddress(c1) # AnchoredAddress(c2)

\* call c is a set_issuer_url or add_vcsl call that returned the id of
\* its anchor transaction
ReturnedAnchor(c) ==
    /\ req[c].op \in {"set_issuer_url", "add_vcsl"}
    /\ pc[c] = "done"
    /\ result[c].status = "returned"
    /\ result[c].txid # NoTxid

C17_FirstUtxoOnly ==
    (anchor[1] # NoAnchor /\ fetch.utxos # <<>>) =>
        LET first == fetch.utxos[1]
            fee == CalcFee(fetch.size)
        IN /\ anchor[1].ok <=> first.sats >= dust_amount + fee
           /\ anchor[1].ok => anchor[1].tx.inputs = <<first>>
           /\ ~anchor[1].ok =>
                 /\ anchor[1].error = "Insufficient funds in selected UTXO"
                 /\ anchor[1].tx = NoTx

\* the build from the list <<600, 2000>> at a 225-byte estimate has failed
\* although the second output covers dust + fee
C17_Witness ==
    /\ Len(fetch.utxos) = 2
    /\ fetch.utxos[1].sats = 600
    /\ fetch.utxos[2].sats = 2000
    /\ fetch.size = 225
    /\ fetch.utxos[2].sats >= dust_amount + CalcFee(fetch.size)
    /\ ~anchor[1].ok
    /\ anchor[1].error = "Insufficient funds in selected UTXO"

\* the total value of the outputs os
RECURSIVE SumSats(_)
SumSats(os) == IF os = <<>> THEN 0 ELSE Head(os).sats + SumSats(Tail(os))

\* C18: every transaction a call has built, and so every transaction that
\* is broadcast, has exactly one input, a first output of exactly 546 sats
\* to the address derived for the call's record, at most one further
\* output, which pays the funding address and is worth at least 546 sats,
\* a computed fee of at least 1, and outputs plus fee within the input's
\* value; no output is the 1-sat placeholder.
C18_ReturnedTransactionShape ==
    \A c \in Calls : anchor[c].ok =>
        LET tx == anchor[c].tx
        IN /\ tx.signed
           /\ Len(tx.inputs) = 1
           /\ Len(tx.outputs) \in {1, 2}
           /\ tx.outputs[1] =
                 TxOutput(546, P2pkh(Address(DeriveBrc42Key(wallet_key,
                                                             KeyId(req[c])))))
           /\ Len(tx.outputs) = 2 =>
                 /\ tx.outputs[2].script_pubkey = P2pkh(Address(wallet_key))
                 /\ tx.outputs[2].sats >= 546
           /\ anchor[c].fee >= 1
           /\ SumSats(tx.outputs) + anchor[c].fee <= tx.inputs[1].sats
           /\ \A i \in 1..Len(tx.outputs) :
                 tx.outputs[i] # TxOutput(temp_change_sats,
                                          P2pkh(Address(wallet_key)))

\* a transaction with a change output has been built from an estimate so
\* small that the fee is the floor of 1
C18_Witness ==
    \E c \in Calls :
        /\ anchor[c].ok
        /\ Len(anchor[c].tx.outputs) = 2
        /\ anchor[c].fee = 1
        /\ fetch.size = 0

\* C19: a call whose indexer query failed got the empty list from the
\* fetch: its build has failed with "no spendable outputs", it has no
\* transaction, has signed and broadcast nothing and has ended; an add_vcsl
\* call has raised without a store write, a set_issuer_url call has
\* returned no anchor; the failing step changes neither store nor chain.
C19_IndexerFailureIsEmpty ==
    /\ [](\A c \in Calls : Has(c, "fetch", {"unreachable"}) =>
            /\ Has(c, "build", {"fail"})
            /\ ~anchor[c].ok
            /\ anchor[c].error = "No spendable UTXOs found"
            /\ anchor[c].tx = NoTx
            /\ ~anchor[c].tx.signed
            /\ ~Has(c, "broadcast", BroadcastOutcomes)
            /\ txid[c] = NoTxid
            /\ pc[c] = "done"
            /\ req[c].op = "add_vcsl" =>
                  /\ result[c] = Raised("Exception",
                                        "Failed to create BSV anchor for VCSL", NoTxid)
                  /\ ~Has(c, "store_vcsl", OkOrFail)
            /\ req[c].op = "set_issuer_url" =>
                  /\ result[c] = Returned(NoTxid)
                  /\ ~Has(c, "store_issuer_anchor", OkOrFail))
    /\ [][\A c \in Calls :
            (pc[c] = "anchor" /\ Has(c, "fetch", {"unreachable"})')
            => UNCHANGED <<store, chain>>]_vars

\* an add_vcsl call and a set_issuer_url call have both ended on a failed
\* indexer query while the wallet had a spendable output
C19_Witness ==
    \E c1 \in Calls, c2 \in Calls :
        /\ req[c1].op = "add_vcsl" /\ req[c2].op = "set_issuer_url"
        /\ Has(c1, "fetch", {"unreachable"}) /\ Has(c2, "fetch", {"unreachable"})
        /\ result[c1].status = "raised"
        /\ result[c2] = Returned(NoTxid)
        /\ unspent # {}

\* an indexer entry with a positive value, a present transaction id and an
\* integer output index
PositiveWithOutpoint(e) ==
    /\ e.value_num
    /\ e.value > 0
    /\ e.tx_hash # NoTxid
    /\ e.pos_int

\* the entries of data with PositiveWithOutpoint, in the order of data
RECURSIVE KeptInOrder(_, _)
KeptInOrder(data, address) ==
    IF data = <<>> THEN <<>>
    ELSE (IF PositiveWithOutpoint(Head(data))
          THEN <<UtxoOf(Head(data), address)>> ELSE <<>>)
         \o KeptInOrder(Tail(data), address)

\* C20: from an answered query the fetch returns, in the indexer's order,
\* exactly the entries with a positive value, a present transaction id and
\* an integer output index; every other entry is dropped on its own.
C20_FetchKeepsValidEntries ==
    (fetch # NoFetch /\ fetch.reply.ok) =>
        fetch.utxos = KeptInOrder(fetch.reply.data, Address(wallet_key))

\* C21: a call holds a transaction id from its broadcast only if the
\* endpoint accepted the submission, and then the id is that of the
\* transaction the call built and the network has accepted it, also when
\* the endpoint answered something else; after a rejection or a transport
\* failure the broadcast has given no id and the call has ended, add_vcsl
\* with the anchoring error.
C21_BroadcasterReturnsLocalId ==
    \A c \in Calls :
        /\ (req[c].op \in {"set_issuer_url", "add_vcsl"} /\ txid[c] # NoTxid) =>
              Has(c, "broadcast", BroadcastOk)
        /\ Has(c, "broadcast", BroadcastOk) =>
              /\ txid[c] = TxidOf(anchor[c].tx)
              /\ txid[c] \in accepted
        /\ Has(c, "broadcast", BroadcastFailed) =>
              /\ txid[c] = NoTxid
              /\ pc[c] = "done"
              /\ result[c].txid = NoTxid
              /\ req[c].op = "add_vcsl" =>
                    result[c] = Raised("Exception",
                                       "Failed to create BSV anchor for VCSL", NoTxid)

\* the endpoint accepted a call's transaction and answered something other
\* than its id, and the call holds the id of the transaction it built
C21_Witness ==
    \E c \in Calls :
        /\ Has(c, "broadcast", {"mismatch"})
        /\ txid[c] = TxidOf(anchor[c].tx)
        /\ txid[c] \in accepted
        /\ pc[c] = "done"
        /\ result[c].txid = txid[c]

\* the store operations the service invokes on db_service
StoreSteps == {"update_issuer_url", "store_issuer_anchor", "store_vcsl",
               "get_issuer_url", "get_vcsl"}

\* C22: with the store the wiring injects, every store operation a call
\* has invoked is one the store provides; a set_issuer_url call that
\* raised did so on a failed operation that the store provides (a failure
\* of the database, not of the wiring), and one that returned has left a
\* row with its issuer's url for get_issuer_url to return.
C22_WiredStoreServesSetIssuerUrl ==
    db_service = WiredDbService =>
        \A c \in Calls :
            /\ \A i \in DOMAIN log[c] :
                  log[c][i].step \in StoreSteps =>
                      HasMethod(db_service, log[c][i].step)
            /\ (req[c].op = "set_issuer_url" /\ result[c].status = "raised") =>
                  \E i \in DOMAIN log[c] :
                      /\ log[c][i].outcome = "fail"
                      /\ HasMethod(db_service, log[c][i].step)
            /\ (req[c].op = "set_issuer_url" /\ result[c].status = "returned") =>
                  issuer_urls[req[c].id].present

====
